---- MODULE Spec2Model ----
(***************************************************************************)
(* News and topic API (main.go): an echo HTTP handler layer over two       *)
(* PostgreSQL tables, topics and news.  Every handler is a sequence of     *)
(* autocommitted SQL statements; each statement is one atomic step here,   *)
(* so two requests interleave exactly between their statements.            *)
(***************************************************************************)
EXTENDS Integers, Sequences, FiniteSets, TLC

\* ------------------------------------------------------------------ bounds
\* values the topics_id_seq sequence may hand out
MaxTopicId == 2
\* values the news_id_seq sequence may hand out
MaxNewsId == 1
\* the last instant of the database clock
MaxClock == 1
\* requests handled concurrently
NumProcs == 2
\* requests received in all
MaxRequests == 3

Procs == 1..NumProcs

\* ------------------------------------------------------------------ inputs
\* The decimal text of the ids a path parameter may carry.
IntText == <<"1", "2", "3", "4">>

\* A path parameter that is not the text of an integer.
Malformed == "abc"

\* c.Param("id") of the topic routes, c.Param("topic_id") of /api/news/topic.
TopicParams == {IntText[i] : i \in 1..MaxTopicId} \cup {Malformed}

\* c.Param("id") of the news routes.
NewsParams == {IntText[i] : i \in 1..MaxNewsId} \cup {Malformed}

\* A request body echo's Bind rejects (not JSON, or a field of the wrong type).
BadPayload == [bind |-> "error"]

\* A request without a body (GET, DELETE).
NoBody == [bind |-> "none"]

\* The decoded Topic of a request body; "" is also what an absent field decodes
\* to.  Two names that may collide, with and without a description, and a body
\* without a name.
TopicBodies ==
    {b \in [name : {"", "a", "b"}, description : {"", "d"}] :
        b.description = "d" => b.name = "a"}

\* The decoded News of a request body; topic_id 0 is also an absent field.  Every
\* topic_id with both fields present, and a body without a title and one without
\* a content.
NewsBodies ==
    {b \in [title : {"", "t"}, content : {"", "c"}, topic_id : 0..MaxTopicId] :
        (b.title = "" \/ b.content = "") =>
            (b.topic_id = 1 /\ (b.title /= "" \/ b.content /= ""))}

\* ------------------------------------------------------------------- state
VARIABLES
    topics,    \* table topics: id -> [name, description, created_at, updated_at]
    news,      \* table news: id -> [title, content, topic_id, created_at, updated_at]
    topicSeq,  \* last value of topics_id_seq (SERIAL)
    newsSeq,   \* last value of news_id_seq (SERIAL)
    now,       \* the database clock, what NOW() returns
    req,       \* per concurrent request: where its handler stands, and its locals
    response,  \* the HTTP response written by the last step, if it wrote one
    received   \* the number of requests received so far

vars == <<topics, news, topicSeq, newsSeq, now, req, response, received>>

Idle == [pc |-> "idle"]

NoResponse == [op |-> "none", status |-> 0]

\* ErrorResponse{Message: m}
ErrorResponse(m) == [message |-> m]

\* c.JSON(status, body), with the request it answers.
Reply(op, param, body, status, out) ==
    [op |-> op, param |-> param, body |-> body, status |-> status, out |-> out]

\* ------------------------------------------------------------------- store
\* The parameter $1 compared with an integer column: PostgreSQL reads the text
\* as an integer, and the statement fails on text that is not one.
IsIntText(s) == \E i \in 1..Len(IntText) : IntText[i] = s

ParseInt(s) == CHOOSE i \in 1..Len(IntText) : IntText[i] = s

\* A row of topics as the Topic struct a Scan fills.
TopicOf(id) == [id |-> id] @@ topics[id]

\* A row of news as the News struct a Scan fills.
NewsOf(id) == [id |-> id] @@ news[id]

\* The schema without UNIQUE on name.
UniqueNameMissing(id, name) == TRUE

\* name VARCHAR(100) NOT NULL UNIQUE: no other row holds the name.
UniqueNameOk(id, name) ==
    \A o \in DOMAIN topics : o /= id => topics[o].name /= name

\* The column without its REFERENCES clause.
ForeignKeyUnchecked(tid) == TRUE

\* topic_id INTEGER REFERENCES topics(id): the referenced row exists.
ForeignKeyOk(tid) == tid \in DOMAIN topics

\* The schema without ON DELETE CASCADE acting: the delete leaves news as it is.
NewsAfterDeleteNoCascade(tid) == news

\* ... ON DELETE CASCADE: the rows of news a delete of topic tid leaves.
NewsAfterDelete(tid) ==
    [n \in {m \in DOMAIN news : news[m].topic_id /= tid} |-> news[n]]

\* SELECT COUNT(*) FROM news WHERE topic_id = $1
CountNews(tid) == Cardinality({n \in DOMAIN news : news[n].topic_id = tid})

\* The existence check left out.
TopicExistsUnchecked(tid) == TRUE

\* The existence check letting the zero value of an absent topic_id through.
TopicExistsOrZero(tid) == tid \in DOMAIN topics \/ tid = 0

\* SELECT EXISTS(SELECT 1 FROM topics WHERE id = $1)
TopicExists(tid) == tid \in DOMAIN topics

\* The lists a SELECT ... ORDER BY created_at DESC over the rows ids may return:
\* every row once, a later created_at never after an earlier one (rows of equal
\* created_at come in any order).
NewsListings(ids) ==
    {s \in [1..Cardinality(ids) -> {NewsOf(n) : n \in ids}] :
        /\ \A i, j \in DOMAIN s : i /= j => s[i].id /= s[j].id
        /\ \A i, j \in DOMAIN s : i < j => s[i].created_at >= s[j].created_at}

\* The collation of the names the requests carry: "a" sorts before "b".
NameRank(n) == CASE n = "" -> 0 [] n = "a" -> 1 [] n = "b" -> 2

\* The lists SELECT ... FROM topics ORDER BY name returns (names are unique).
TopicListings ==
    {s \in [1..Cardinality(DOMAIN topics) -> {TopicOf(t) : t \in DOMAIN topics}] :
        /\ \A i, j \in DOMAIN s : i /= j => s[i].id /= s[j].id
        /\ \A i, j \in DOMAIN s : i < j => NameRank(s[i].name) <= NameRank(s[j].name)}

\* ---------------------------------------------------------------- handlers
\* The server hands request number received + 1 to a free handler; which of the
\* free ones is immaterial, so the first is taken.
Receive(p) ==
    /\ req[p].pc = "idle"
    /\ \A q \in Procs : q < p => req[q].pc /= "idle"
    /\ received < MaxRequests
    /\ received' = received + 1

\* What a step that ends its handler leaves: the response written, the slot free.
Respond(p, r) ==
    /\ req' = [req EXCEPT ![p] = Idle]
    /\ response' = r

\* What a step that goes on to a further statement leaves: the handler's locals.
Continue(p, locals) ==
    /\ req' = [req EXCEPT ![p] = locals]
    /\ response' = NoResponse

\* if topic.Name == ""
TopicFieldsMissing(b) == b.name = ""

\* The INSERT without the description bound to $2.
InsertedTopicNoDescription(b) ==
    [name |-> b.name, description |-> "", created_at |-> now, updated_at |-> now]

\* INSERT INTO topics (name, description, created_at, updated_at)
\* VALUES ($1, $2, NOW(), NOW())
InsertedTopic(b) ==
    [name |-> b.name, description |-> b.description,
     created_at |-> now, updated_at |-> now]

\* UPDATE topics SET name = $1, description = $2, updated_at = NOW() WHERE id = $3
UpdatedTopic(t, b) ==
    [topics[t] EXCEPT !.name = b.name, !.description = b.description,
                      !.updated_at = now]

\* The guard off by one: if count > 1
DeleteBlockedAboveOne(count) == count > 1

\* if count > 0
DeleteBlocked(count) == count > 0

\* The DELETE without its WHERE clause.
TopicsAfterDeleteAll(t) == <<>>

\* DELETE FROM topics WHERE id = $1: the rows of topics left.
TopicsAfterDelete(t) == [o \in DOMAIN topics \ {t} |-> topics[o]]

\* POST /api/topics
createTopic(p, b) ==
    /\ Receive(p)
    /\ IF b = BadPayload
       THEN /\ Respond(p, Reply("createTopic", "", b, 400,
                                ErrorResponse("Invalid request payload")))
            /\ UNCHANGED <<topics, news, topicSeq, newsSeq, now>>
       ELSE IF TopicFieldsMissing(b)
       THEN /\ Respond(p, Reply("createTopic", "", b, 400,
                                ErrorResponse("Topic name is required")))
            /\ UNCHANGED <<topics, news, topicSeq, newsSeq, now>>
       ELSE \* the INSERT draws the id from the sequence, kept or not
            /\ topicSeq < MaxTopicId
            /\ topicSeq' = topicSeq + 1
            /\ IF UniqueNameOk(topicSeq + 1, b.name)
               THEN /\ topics' = (topicSeq + 1 :> InsertedTopic(b)) @@ topics
                    \* topic as bound, with what RETURNING scans into it
                    /\ Respond(p, Reply("createTopic", "", b, 201,
                          [id |-> topicSeq + 1, name |-> b.name,
                           description |-> b.description,
                           created_at |-> InsertedTopic(b).created_at,
                           updated_at |-> InsertedTopic(b).updated_at]))
               ELSE /\ topics' = topics
                    /\ Respond(p, Reply("createTopic", "", b, 500,
                                        ErrorResponse("Failed to create topic")))
            /\ UNCHANGED <<news, newsSeq, now>>

\* GET /api/topics/:id
getTopicById(p, id) ==
    /\ Receive(p)
    /\ IF ~IsIntText(id)
       THEN Respond(p, Reply("getTopicById", id, NoBody, 500,
                             ErrorResponse("Failed to fetch topic")))
       ELSE IF ParseInt(id) \in DOMAIN topics
       THEN Respond(p, Reply("getTopicById", id, NoBody, 200, TopicOf(ParseInt(id))))
       ELSE Respond(p, Reply("getTopicById", id, NoBody, 404,
                             ErrorResponse("Topic not found")))
    /\ UNCHANGED <<topics, news, topicSeq, newsSeq, now>>

\* GET /api/topics
getAllTopics(p) ==
    /\ Receive(p)
    /\ \E list \in TopicListings :
           Respond(p, Reply("getAllTopics", "", NoBody, 200, list))
    /\ UNCHANGED <<topics, news, topicSeq, newsSeq, now>>

\* PUT /api/topics/:id, up to and with its UPDATE
updateTopic(p, id, b) ==
    /\ Receive(p)
    /\ IF b = BadPayload
       THEN /\ Respond(p, Reply("updateTopic", id, b, 400,
                                ErrorResponse("Invalid request payload")))
            /\ topics' = topics
       ELSE IF TopicFieldsMissing(b)
       THEN /\ Respond(p, Reply("updateTopic", id, b, 400,
                                ErrorResponse("Topic name is required")))
            /\ topics' = topics
       ELSE IF ~IsIntText(id)
       THEN /\ Respond(p, Reply("updateTopic", id, b, 500,
                                ErrorResponse("Failed to update topic")))
            /\ topics' = topics
       ELSE IF ParseInt(id) \notin DOMAIN topics
       THEN \* rowsAffected == 0
            /\ Respond(p, Reply("updateTopic", id, b, 404,
                                ErrorResponse("Topic not found")))
            /\ topics' = topics
       ELSE IF ~UniqueNameOk(ParseInt(id), b.name)
       THEN /\ Respond(p, Reply("updateTopic", id, b, 500,
                                ErrorResponse("Failed to update topic")))
            /\ topics' = topics
       ELSE /\ topics' = [topics EXCEPT ![ParseInt(id)] = UpdatedTopic(ParseInt(id), b)]
            /\ Continue(p, [pc |-> "updateTopic_select", id |-> id, body |-> b])
    /\ UNCHANGED <<news, topicSeq, newsSeq, now>>

\* PUT /api/topics/:id, its SELECT of the updated row
updateTopicSelect(p) ==
    /\ req[p].pc = "updateTopic_select"
    /\ received' = received
    /\ IF ParseInt(req[p].id) \in DOMAIN topics
       THEN Respond(p, Reply("updateTopic", req[p].id, req[p].body, 200,
                             TopicOf(ParseInt(req[p].id))))
       ELSE \* sql.ErrNoRows
            Respond(p, Reply("updateTopic", req[p].id, req[p].body, 500,
                             ErrorResponse("Failed to fetch updated topic")))
    /\ UNCHANGED <<topics, news, topicSeq, newsSeq, now>>

\* DELETE /api/topics/:id, up to and with its SELECT COUNT(*)
deleteTopic(p, id) ==
    /\ Receive(p)
    /\ IF ~IsIntText(id)
       THEN Respond(p, Reply("deleteTopic", id, NoBody, 500,
                             ErrorResponse("Failed to check news references")))
       ELSE IF DeleteBlocked(CountNews(ParseInt(id)))
       THEN Respond(p, Reply("deleteTopic", id, NoBody, 409,
                ErrorResponse("Cannot delete topic with associated news articles")))
       ELSE Continue(p, [pc |-> "deleteTopic_delete", id |-> id])
    /\ UNCHANGED <<topics, news, topicSeq, newsSeq, now>>

\* DELETE /api/topics/:id, its DELETE
deleteTopicDelete(p) ==
    /\ req[p].pc = "deleteTopic_delete"
    /\ received' = received
    /\ IF ParseInt(req[p].id) \in DOMAIN topics
       THEN /\ topics' = TopicsAfterDelete(ParseInt(req[p].id))
            /\ news' = NewsAfterDelete(ParseInt(req[p].id))
            /\ Respond(p, Reply("deleteTopic", req[p].id, NoBody, 200,
                                [message |-> "Topic deleted successfully"]))
       ELSE \* rowsAffected == 0
            /\ topics' = topics
            /\ news' = news
            /\ Respond(p, Reply("deleteTopic", req[p].id, NoBody, 404,
                                ErrorResponse("Topic not found")))
    /\ UNCHANGED <<topicSeq, newsSeq, now>>


\* The validation with && for ||.
NewsFieldsBothMissing(b) == b.title = "" /\ b.content = ""

\* if news.Title == "" || news.Content == ""
NewsFieldsMissing(b) == b.title = "" \/ b.content = ""

\* INSERT INTO news (title, content, topic_id, created_at, updated_at)
\* VALUES ($1, $2, $3, NOW(), NOW())
InsertedNews(b) ==
    [title |-> b.title, content |-> b.content, topic_id |-> b.topic_id,
     created_at |-> now, updated_at |-> now]

\* UPDATE news SET title = $1, content = $2, topic_id = $3, updated_at = NOW()
\* WHERE id = $4
UpdatedNews(n, b) ==
    [news[n] EXCEPT !.title = b.title, !.content = b.content,
                    !.topic_id = b.topic_id, !.updated_at = now]

\* The SELECT without its WHERE clause.
NewsOfAnyTopic(tid) == DOMAIN news

\* ... FROM news n WHERE n.topic_id = $1: the ids of the rows selected.
NewsByTopic(tid) == {n \in DOMAIN news : news[n].topic_id = tid}

\* DELETE FROM news WHERE id = $1: the rows of news left.
NewsAfterDeleteNews(n) == [m \in DOMAIN news \ {n} |-> news[m]]

\* GET /health
healthCheck(p) ==
    /\ Receive(p)
    /\ Respond(p, Reply("healthCheck", "", NoBody, 200,
                        [status |-> "ok", time |-> now]))
    /\ UNCHANGED <<topics, news, topicSeq, newsSeq, now>>

\* GET /api/news
getAllNews(p) ==
    /\ Receive(p)
    /\ \E list \in NewsListings(DOMAIN news) :
           Respond(p, Reply("getAllNews", "", NoBody, 200, list))
    /\ UNCHANGED <<topics, news, topicSeq, newsSeq, now>>

\* GET /api/news/:id
getNewsById(p, id) ==
    /\ Receive(p)
    /\ IF ~IsIntText(id)
       THEN Respond(p, Reply("getNewsById", id, NoBody, 500,
                             ErrorResponse("Failed to fetch news")))
       ELSE IF ParseInt(id) \in DOMAIN news
       THEN Respond(p, Reply("getNewsById", id, NoBody, 200, NewsOf(ParseInt(id))))
       ELSE Respond(p, Reply("getNewsById", id, NoBody, 404,
                             ErrorResponse("News not found")))
    /\ UNCHANGED <<topics, news, topicSeq, newsSeq, now>>

\* GET /api/news/topic/:topic_id
getNewsByTopic(p, id) ==
    /\ Receive(p)
    /\ IF ~IsIntText(id)
       THEN Respond(p, Reply("getNewsByTopic", id, NoBody, 500,
                             ErrorResponse("Failed to fetch news by topic")))
       ELSE \E list \in NewsListings(NewsByTopic(ParseInt(id))) :
               Respond(p, Reply("getNewsByTopic", id, NoBody, 200, list))
    /\ UNCHANGED <<topics, news, topicSeq, newsSeq, now>>

\* POST /api/news, up to and with its SELECT EXISTS
createNews(p, b) ==
    /\ Receive(p)
    /\ IF b = BadPayload
       THEN Respond(p, Reply("createNews", "", b, 400,
                             ErrorResponse("Invalid request payload")))
       ELSE IF NewsFieldsMissing(b)
       THEN Respond(p, Reply("createNews", "", b, 400,
                             ErrorResponse("Title and content are required")))
       ELSE IF ~TopicExists(b.topic_id)
       THEN Respond(p, Reply("createNews", "", b, 400,
                             ErrorResponse("Topic does not exist")))
       ELSE Continue(p, [pc |-> "createNews_insert", body |-> b])
    /\ UNCHANGED <<topics, news, topicSeq, newsSeq, now>>

\* POST /api/news, its INSERT
createNewsInsert(p) ==
    /\ req[p].pc = "createNews_insert"
    /\ received' = received
    \* the INSERT draws the id from the sequence, kept or not
    /\ newsSeq < MaxNewsId
    /\ newsSeq' = newsSeq + 1
    /\ IF ForeignKeyOk(req[p].body.topic_id)
       THEN /\ news' = (newsSeq + 1 :> InsertedNews(req[p].body)) @@ news
            \* news as bound, with what RETURNING scans into it
            /\ Respond(p, Reply("createNews", "", req[p].body, 201,
                  [id |-> newsSeq + 1, title |-> req[p].body.title,
                   content |-> req[p].body.content,
                   topic_id |-> req[p].body.topic_id,
                   created_at |-> InsertedNews(req[p].body).created_at,
                   updated_at |-> InsertedNews(req[p].body).updated_at]))
       ELSE /\ news' = news
            /\ Respond(p, Reply("createNews", "", req[p].body, 500,
                                ErrorResponse("Failed to create news")))
    /\ UNCHANGED <<topics, topicSeq, now>>

\* PUT /api/news/:id, up to and with its SELECT EXISTS
updateNews(p, id, b) ==
    /\ Receive(p)
    /\ IF b = BadPayload
       THEN Respond(p, Reply("updateNews", id, b, 400,
                             ErrorResponse("Invalid request payload")))
       ELSE IF NewsFieldsMissing(b)
       THEN Respond(p, Reply("updateNews", id, b, 400,
                             ErrorResponse("Title and content are required")))
       ELSE IF ~TopicExists(b.topic_id)
       THEN Respond(p, Reply("updateNews", id, b, 400,
                             ErrorResponse("Topic does not exist")))
       ELSE Continue(p, [pc |-> "updateNews_update", id |-> id, body |-> b])
    /\ UNCHANGED <<topics, news, topicSeq, newsSeq, now>>

\* PUT /api/news/:id, its UPDATE
updateNewsUpdate(p) ==
    /\ req[p].pc = "updateNews_update"
    /\ received' = received
    /\ IF ~IsIntText(req[p].id)
       THEN /\ news' = news
            /\ Respond(p, Reply("updateNews", req[p].id, req[p].body, 500,
                                ErrorResponse("Failed to update news")))
       ELSE IF ParseInt(req[p].id) \notin DOMAIN news
       THEN \* rowsAffected == 0: no row is written, no foreign key is checked
            /\ news' = news
            /\ Respond(p, Reply("updateNews", req[p].id, req[p].body, 404,
                                ErrorResponse("News not found")))
       ELSE IF ~ForeignKeyOk(req[p].body.topic_id)
       THEN /\ news' = news
            /\ Respond(p, Reply("updateNews", req[p].id, req[p].body, 500,
                                ErrorResponse("Failed to update news")))
       ELSE /\ news' = [news EXCEPT ![ParseInt(req[p].id)] =
                                       UpdatedNews(ParseInt(req[p].id), req[p].body)]
            /\ Continue(p, [req[p] EXCEPT !.pc = "updateNews_select"])
    /\ UNCHANGED <<topics, topicSeq, newsSeq, now>>

\* PUT /api/news/:id, its SELECT of the updated row
updateNewsSelect(p) ==
    /\ req[p].pc = "updateNews_select"
    /\ received' = received
    /\ IF ParseInt(req[p].id) \in DOMAIN news
       THEN Respond(p, Reply("updateNews", req[p].id, req[p].body, 200,
                             NewsOf(ParseInt(req[p].id))))
       ELSE \* sql.ErrNoRows
            Respond(p, Reply("updateNews", req[p].id, req[p].body, 500,
                             ErrorResponse("Failed to fetch updated news")))
    /\ UNCHANGED <<topics, news, topicSeq, newsSeq, now>>

\* DELETE /api/news/:id
deleteNews(p, id) ==
    /\ Receive(p)
    /\ IF ~IsIntText(id)
       THEN /\ news' = news
            /\ Respond(p, Reply("deleteNews", id, NoBody, 500,
                                ErrorResponse("Failed to delete news")))
       ELSE IF ParseInt(id) \in DOMAIN news
       THEN /\ news' = NewsAfterDeleteNews(ParseInt(id))
            /\ Respond(p, Reply("deleteNews", id, NoBody, 200,
                                [message |-> "News deleted successfully"]))
       ELSE \* rowsAffected == 0
            /\ news' = news
            /\ Respond(p, Reply("deleteNews", id, NoBody, 404,
                                ErrorResponse("News not found")))
    /\ UNCHANGED <<topics, topicSeq, newsSeq, now>>

\* The database clock advances between statements.
Tick ==
    /\ now < MaxClock
    /\ now' = now + 1
    /\ response' = NoResponse
    /\ UNCHANGED <<topics, news, topicSeq, newsSeq, req, received>>

\* ------------------------------------------------------------ specification
\* createTables on an empty database, no request yet.
Init ==
    /\ topics = <<>>
    /\ news = <<>>
    /\ topicSeq = 0
    /\ newsSeq = 0
    /\ now = 0
    /\ req = [p \in Procs |-> Idle]
    /\ response = NoResponse
    /\ received = 0

Next ==
    \/ \E p \in Procs : healthCheck(p)
    \/ \E p \in Procs : getAllNews(p)
    \/ \E p \in Procs, id \in NewsParams : getNewsById(p, id)
    \/ \E p \in Procs, b \in NewsBodies \cup {BadPayload} : createNews(p, b)
    \/ \E p \in Procs : createNewsInsert(p)
    \/ \E p \in Procs, id \in NewsParams, b \in NewsBodies \cup {BadPayload} :
           updateNews(p, id, b)
    \/ \E p \in Procs : updateNewsUpdate(p)
    \/ \E p \in Procs : updateNewsSelect(p)
    \/ \E p \in Procs, id \in NewsParams : deleteNews(p, id)
    \/ \E p \in Procs, id \in TopicParams : getNewsByTopic(p, id)
    \/ \E p \in Procs : getAllTopics(p)
    \/ \E p \in Procs, id \in TopicParams : getTopicById(p, id)
    \/ \E p \in Procs, b \in TopicBodies \cup {BadPayload} : createTopic(p, b)
    \/ \E p \in Procs, id \in TopicParams, b \in TopicBodies \cup {BadPayload} :
           updateTopic(p, id, b)
    \/ \E p \in Procs : updateTopicSelect(p)
    \/ \E p \in Procs, id \in TopicParams : deleteTopic(p, id)
    \/ \E p \in Procs : deleteTopicDelete(p)
    \/ Tick

Spec == Init /\ [][Next]_vars

\* createTables on a database that earlier requests have written (CREATE TABLE IF
\* NOT EXISTS keeps the rows and the sequences): one with a topic and no news,
\* or one with two topics and a news item of the first.  The requests that
\* stored the rows count as received: two more are to come.
InitStored ==
    /\ \/ /\ topics = <<[name |-> "a", description |-> "d",
                         created_at |-> 0, updated_at |-> 0]>>
          /\ news = <<>>
          /\ topicSeq = 1
          /\ newsSeq = 0
       \/ /\ topics = <<[name |-> "a", description |-> "d",
                         created_at |-> 0, updated_at |-> 0],
                        [name |-> "b", description |-> "",
                         created_at |-> 0, updated_at |-> 0]>>
          /\ news = <<[title |-> "t", content |-> "c", topic_id |-> 1,
                       created_at |-> 0, updated_at |-> 0]>>
          /\ topicSeq = 2
          /\ newsSeq = 1
    /\ now = 0
    /\ req = [p \in Procs |-> Idle]
    /\ response = NoResponse
    /\ received = MaxRequests - 2

SpecStored == InitStored /\ [][Next]_vars

\* ------------------------------------------------------------------ claims
\* The tables a request may write, with their sequences.
tables == <<topics, news, topicSeq, newsSeq>>

\* The step received a request and answered it in its first statement or before.
AnsweredAtOnce(op) == response'.op = op /\ received' = received + 1

\* The step is the first of handler p and goes on to the statement at pc.
GoesOn(p, pc) == req[p].pc = "idle" /\ req'[p].pc = pc

\* The step is the statement at pc of handler p, which answers after it.
AnswersAt(p, pc) == req[p].pc = pc /\ req'[p].pc = "idle"

\* The rows of news that refer to topic t.
Referring(t) == {n \in DOMAIN news : news[n].topic_id = t}

\* C1: in every reachable state, whatever the interleaving of the requests'
\* statements, the topic_id of every row of news is the id of a row of topics.
C1_NewsReferToTopics ==
    \A n \in DOMAIN news : news[n].topic_id \in DOMAIN topics

\* A row of news exists while a deleteTopic that counted no row for its topic is
\* about to issue its DELETE.
C1_Witness ==
    \E n \in DOMAIN news, p \in Procs :
        /\ req[p].pc = "deleteTopic_delete"
        /\ ParseInt(req[p].id) = news[n].topic_id

\* C2: a deleteTopic whose count query sees at least one row of news for the
\* topic responds 409 and ends there (it never goes on to its DELETE), and the
\* topic's row and every row of news are still there after it.
C2_DeleteReferencedTopic ==
    [][/\ (/\ AnsweredAtOnce("deleteTopic")
           /\ IsIntText(response'.param)
           /\ Referring(ParseInt(response'.param)) /= {})
          => /\ response'.status = 409
             /\ UNCHANGED tables
             /\ ParseInt(response'.param) \in DOMAIN topics'
       /\ \A p \in Procs :
             GoesOn(p, "deleteTopic_delete")
             => Referring(ParseInt(req'[p].id)) = {}]_vars

\* A deleteTopic has just answered 409 for a topic a row of news refers to.
C2_Witness ==
    /\ response.op = "deleteTopic"
    /\ response.status = 409
    /\ ParseInt(response.param) \in DOMAIN topics
    /\ Referring(ParseInt(response.param)) /= {}

\* C3: the DELETE of deleteTopic never removes a topic that a row of news refers
\* to at that moment, and no step other than a deleteNews removes a row of news.
C3_CascadeNeverTriggered ==
    [][/\ \A p \in Procs :
             AnswersAt(p, "deleteTopic_delete")
             => \/ ParseInt(req[p].id) \notin DOMAIN topics
                \/ Referring(ParseInt(req[p].id)) = {}
       /\ (\E n \in DOMAIN news : n \notin DOMAIN news')
             => AnsweredAtOnce("deleteNews")]_vars

\* C4: a createNews with title and content whose topic_id is the id of no row
\* of topics when it is checked responds 400 and ends there (it never goes on
\* to its INSERT); no table and no sequence is changed.
C4_CreateNewsUnknownTopic ==
    [][/\ (/\ AnsweredAtOnce("createNews")
           /\ response'.body /= BadPayload
           /\ response'.body.title /= "" /\ response'.body.content /= ""
           /\ response'.body.topic_id \notin DOMAIN topics)
          => /\ response'.status = 400
             /\ UNCHANGED tables
       /\ \A p \in Procs :
             GoesOn(p, "createNews_insert")
             => req'[p].body.topic_id \in DOMAIN topics]_vars

\* A createNews has just been refused for its topic_id while a topic exists.
C4_Witness ==
    /\ response.op = "createNews"
    /\ response.status = 400
    /\ response.body /= BadPayload
    /\ response.body.title /= "" /\ response.body.content /= ""
    /\ response.body.topic_id \notin DOMAIN topics
    /\ DOMAIN topics /= {}

\* The request body lacks a field its handler requires.
LacksRequiredField(op, b) ==
    \/ op \in {"createTopic", "updateTopic"} /\ b /= BadPayload /\ b.name = ""
    \/ /\ op \in {"createNews", "updateNews"}
       /\ b /= BadPayload
       /\ (b.title = "" \/ b.content = "")

\* C5: a createTopic or updateTopic with an empty name, and a createNews or
\* updateNews with an empty title or an empty content, responds 400 with the
\* validation's message in the step that receives it, before any statement: no
\* table or sequence changes, and no handler goes on with such a body.
C5_MissingFieldRefused ==
    [][/\ LacksRequiredField(response'.op, response'.body)
          => /\ received' = received + 1
             /\ response'.status = 400
             /\ response'.out =
                  IF response'.op \in {"createTopic", "updateTopic"}
                  THEN ErrorResponse("Topic name is required")
                  ELSE ErrorResponse("Title and content are required")
             /\ UNCHANGED tables
       /\ \A p \in Procs :
             /\ req'[p].pc = "updateTopic_select"
                  => ~LacksRequiredField("updateTopic", req'[p].body)
             /\ req'[p].pc \in {"createNews_insert", "updateNews_update"}
                  => ~LacksRequiredField("createNews", req'[p].body)]_vars

\* An updateNews with a title and no content has just been refused, while the
\* topic it names and the row it names both exist.
C5_Witness ==
    /\ response.op = "updateNews"
    /\ response.status = 400
    /\ response.body /= BadPayload
    /\ response.body.title /= "" /\ response.body.content = ""
    /\ response.body.topic_id \in DOMAIN topics
    /\ IsIntText(response.param)
    /\ ParseInt(response.param) \in DOMAIN news

\* Another row of topics than t holds the name.
NameTaken(t, name) == \E o \in DOMAIN topics \ {t} : topics[o].name = name

\* C6: no two rows of topics ever hold the same name and none holds the empty
\* name; a createTopic, or an updateTopic of an existing row, whose name another
\* row holds responds 500 and leaves the table topics as it was (an updateTopic
\* never goes on to its SELECT with such a name).
C6_TopicNamesUnique ==
    [][/\ \A t, u \in DOMAIN topics' : t /= u => topics'[t].name /= topics'[u].name
       /\ \A t \in DOMAIN topics' : topics'[t].name /= ""
       /\ (/\ AnsweredAtOnce("createTopic")
            /\ response'.body /= BadPayload
            /\ response'.body.name /= ""
            /\ NameTaken(0, response'.body.name))
           => response'.status = 500 /\ topics' = topics
       /\ (/\ AnsweredAtOnce("updateTopic")
            /\ response'.body /= BadPayload
            /\ response'.body.name /= ""
            /\ IsIntText(response'.param)
            /\ ParseInt(response'.param) \in DOMAIN topics
            /\ NameTaken(ParseInt(response'.param), response'.body.name))
           => response'.status = 500 /\ topics' = topics
       /\ \A p \in Procs :
             GoesOn(p, "updateTopic_select")
             => ~NameTaken(ParseInt(req'[p].id), req'[p].body.name)]_vars

\* An updateTopic of an existing row to the name of another row has just
\* answered 500.
C6_Witness ==
    /\ response.op = "updateTopic"
    /\ response.status = 500
    /\ IsIntText(response.param)
    /\ ParseInt(response.param) \in DOMAIN topics
    /\ NameTaken(ParseInt(response.param), response.body.name)

\* C7: a deleteTopic of a numeric id that no row of news refers to goes on to
\* its DELETE; the DELETE of an existing topic no row of news refers to responds
\* 200 and removes that row of topics and nothing else; an id once handed out
\* and without a row never has a row again, and a getTopicById of an id without
\* a row responds 404.  A deleteTopic whose DELETE finds no row responds 404 and
\* changes nothing.
C7_DeleteTopic ==
    [][/\ (AnsweredAtOnce("deleteTopic") /\ IsIntText(response'.param))
          => Referring(ParseInt(response'.param)) /= {}
       /\ \A p \in Procs :
             AnswersAt(p, "deleteTopic_delete") =>
               LET t == ParseInt(req[p].id) IN
               /\ response'.op = "deleteTopic"
               /\ (t \in DOMAIN topics /\ Referring(t) = {})
                   => /\ response'.status = 200
                      /\ DOMAIN topics' = DOMAIN topics \ {t}
                      /\ \A o \in DOMAIN topics' : topics'[o] = topics[o]
                      /\ UNCHANGED <<news, topicSeq, newsSeq>>
               /\ t \notin DOMAIN topics
                   => /\ response'.status = 404
                      /\ UNCHANGED tables
       /\ \A t \in 1..topicSeq : t \notin DOMAIN topics => t \notin DOMAIN topics'
       /\ (/\ response'.op = "getTopicById"
            /\ IsIntText(response'.param)
            /\ ParseInt(response'.param) \notin DOMAIN topics)
           => /\ response'.status = 404
              /\ UNCHANGED tables]_vars

\* A deleteTopic has just answered 200, its row gone and another row of topics
\* still there.
C7_Witness ==
    /\ response.op = "deleteTopic"
    /\ response.status = 200
    /\ ParseInt(response.param) \notin DOMAIN topics
    /\ DOMAIN topics /= {}

\* The elements of a list.
Range(list) == {list[i] : i \in DOMAIN list}

C9_CreateThenGet ==
    [][/\ (response'.op = "createTopic" /\ response'.status = 201)
          => LET t == response'.out.id IN
             /\ t /= 0
             /\ t > topicSeq
             /\ t \notin DOMAIN topics
             /\ response'.out.name = response'.body.name
             /\ response'.out.description = response'.body.description
             /\ response'.out.created_at = response'.out.updated_at
             /\ DOMAIN topics' = DOMAIN topics \cup {t}
             /\ topics'[t] = [name |-> response'.body.name,
                              description |-> response'.body.description,
                              created_at |-> response'.out.created_at,
                              updated_at |-> response'.out.updated_at]
             /\ \A o \in DOMAIN topics : topics'[o] = topics[o]
       /\ (/\ response'.op = "getTopicById"
            /\ IsIntText(response'.param)
            /\ ParseInt(response'.param) \in DOMAIN topics)
           => LET t == ParseInt(response'.param) IN
              /\ response'.status = 200
              /\ response'.out =
                   [id |-> t, name |-> topics[t].name,
                    description |-> topics[t].description,
                    created_at |-> topics[t].created_at,
                    updated_at |-> topics[t].updated_at]
              /\ UNCHANGED tables]_vars

\* A createTopic with a description has just answered 201 while another row of
\* topics exists.
C9_Witness ==
    /\ response.op = "createTopic"
    /\ response.status = 201
    /\ response.body.description = "d"
    /\ DOMAIN topics \ {response.out.id} /= {}

\* C10: an updateTopic with a name and a numeric id responds 404 when its UPDATE
\* matches no row; when its UPDATE has written the row (keeping id and
\* created_at), it responds 200 with that id, the name and description
\* submitted and an updated_at not before created_at, whatever other requests'
\* statements run between its UPDATE and its SELECT.
C10_UpdateTopicReply ==
    [][/\ (/\ AnsweredAtOnce("updateTopic")
           /\ ~LacksRequiredField("updateTopic", response'.body)
           /\ response'.body /= BadPayload
           /\ IsIntText(response'.param)
           /\ ParseInt(response'.param) \notin DOMAIN topics)
          => response'.status = 404 /\ UNCHANGED tables
       /\ \A p \in Procs :
             /\ GoesOn(p, "updateTopic_select")
                  => /\ DOMAIN topics' = DOMAIN topics
                     /\ topics'[ParseInt(req'[p].id)].created_at =
                          topics[ParseInt(req'[p].id)].created_at
             /\ AnswersAt(p, "updateTopic_select")
                  => /\ response'.op = "updateTopic"
                     /\ response'.status = 200
                     /\ response'.out.id = ParseInt(req[p].id)
                     /\ response'.out.name = req[p].body.name
                     /\ response'.out.description = req[p].body.description
                     /\ response'.out.updated_at >= response'.out.created_at]_vars

\* The path id is the text of an integer that is the id of no row of news.
UnknownNewsId(param) == IsIntText(param) /\ ParseInt(param) \notin DOMAIN news

\* C11 as claimed: an updateNews with title and content whose numeric target
\* id is the id of no row of news responds 404 and changes no row, whatever
\* topic_id it submits.
C11_UpdateNewsUnknownId ==
    [][(/\ response'.op = "updateNews"
        /\ response'.body /= BadPayload
        /\ response'.body.title /= "" /\ response'.body.content /= ""
        /\ UnknownNewsId(response'.param))
       => /\ response'.status = 404
          /\ UNCHANGED tables]_vars

\* C11: an updateNews with title and content whose topic_id is the id of no row
\* of topics when it is checked responds 400, whatever its target id, and
\* changes no row; one whose topic_id passed the check and whose numeric target
\* id is the id of no row of news when its UPDATE runs responds 404 and changes
\* no row, whether or not the topic still exists then; one whose target id is
\* not the text of an integer responds 500 there and changes no row.
C11_UpdateNewsUnknownIdKnownTopic ==
    [][/\ (/\ AnsweredAtOnce("updateNews")
           /\ response'.body /= BadPayload
           /\ response'.body.title /= "" /\ response'.body.content /= "")
          => /\ response'.body.topic_id \notin DOMAIN topics
             /\ response'.status = 400
             /\ UNCHANGED tables
       /\ \A p \in Procs :
             /\ GoesOn(p, "updateNews_update")
                  => /\ req'[p].body.topic_id \in DOMAIN topics
                     /\ req'[p].body.title /= "" /\ req'[p].body.content /= ""
                     /\ UNCHANGED tables
             /\ (AnswersAt(p, "updateNews_update") /\ UnknownNewsId(req[p].id))
                  => /\ response'.op = "updateNews"
                     /\ response'.param = req[p].id
                     /\ response'.status = 404
                     /\ UNCHANGED tables
             /\ (AnswersAt(p, "updateNews_update") /\ ~IsIntText(req[p].id))
                  => /\ response'.op = "updateNews"
                     /\ response'.status = 500
                     /\ UNCHANGED tables]_vars

\* An updateNews of an id without a row has just answered 404, the topic it
\* submitted deleted since its check.
C11_Witness ==
    /\ response.op = "updateNews"
    /\ response.status = 404
    /\ UnknownNewsId(response.param)
    /\ response.body.topic_id \notin DOMAIN topics
    /\ topicSeq > 0

\* C12: a getTopicById, updateTopic, deleteTopic, getNewsById, updateNews or
\* deleteNews whose path id is not the text of an integer responds 404, never
\* 400 and never 500, and changes no table; the updates are taken with a body
\* that passes their validation, so that a 400 could only be for the id.
C12_MalformedIdNotFound ==
    [][/\ (/\ response'.op \in {"getTopicById", "deleteTopic",
                                "getNewsById", "deleteNews"}
           /\ ~IsIntText(response'.param))
          => /\ response'.status = 404
             /\ UNCHANGED tables
       /\ (/\ response'.op = "updateTopic"
           /\ ~IsIntText(response'.param)
           /\ response'.body /= BadPayload
           /\ response'.body.name /= "")
          => /\ response'.status = 404
             /\ UNCHANGED tables
       /\ \A p \in Procs :
             (AnswersAt(p, "updateNews_update") /\ ~IsIntText(req[p].id))
             => /\ response'.status = 404
                /\ UNCHANGED tables]_vars

\* The step ends a handler: a request answered in its first statement, or the
\* last statement of a handler that went on.
EndsHandler ==
    \/ received' = received + 1 /\ req' = req
    \/ \E p \in Procs : req[p].pc /= "idle" /\ req'[p].pc = "idle"

\* The step writes exactly one response when it ends a handler and none when
\* it does not; a handler that answers, an error included, is at no further
\* statement, and no step moves two handlers.
OneResponse ==
    /\ EndsHandler <=> response'.status /= 0
    /\ \A p \in Procs :
          (req[p].pc /= "idle" /\ req'[p] /= req[p] /\ response'.status /= 0)
          => req'[p] = Idle
    /\ \A p, q \in Procs :
          (req'[p] /= req[p] /\ req'[q] /= req[q]) => p = q

\* C13 as claimed: a createNews at its INSERT, or an updateNews at its UPDATE,
\* whose topic has been deleted since its check responds 500 and leaves news as
\* it was; every step that ends a handler writes one response and leaves the
\* handler at no further statement.
C13_WriteAfterTopicDeleted ==
    [][/\ \A p \in Procs :
             (/\ \/ AnswersAt(p, "createNews_insert")
                 \/ req[p].pc = "updateNews_update" /\ req'[p] /= req[p]
              /\ req[p].body.topic_id \notin DOMAIN topics)
             => /\ response'.status = 500
                /\ news' = news
       /\ OneResponse]_vars

\* C13: a createNews at its INSERT whose topic has been deleted since its check
\* responds 500 and inserts no row (the sequence alone moves); an updateNews at
\* its UPDATE whose topic has been deleted since its check responds 500 when
\* its target id is the id of a row of news or is not the text of an integer,
\* and 404 when it is the id of no row, for no foreign key is checked when no
\* row is written; no row of news or topics is changed in any of these cases.
\* Every step that ends a handler writes one response and leaves the handler at
\* no further statement.
C13_WriteAfterTopicDeletedOfARow ==
    [][/\ \A p \in Procs :
             /\ (/\ AnswersAt(p, "createNews_insert")
                 /\ req[p].body.topic_id \notin DOMAIN topics)
                => /\ response'.op = "createNews"
                   /\ response'.status = 500
                   /\ UNCHANGED <<topics, news, topicSeq>>
             /\ (/\ req[p].pc = "updateNews_update" /\ req'[p] /= req[p]
                 /\ req[p].body.topic_id \notin DOMAIN topics)
                => /\ response'.op = "updateNews"
                   /\ response'.status =
                         IF UnknownNewsId(req[p].id) THEN 404 ELSE 500
                   /\ req'[p] = Idle
                   /\ UNCHANGED tables
       /\ OneResponse]_vars

\* An updateNews of an existing news item has just answered 500, the topic it
\* submitted deleted since its check, and the item is as it was.
C13_Witness ==
    /\ response.op = "updateNews"
    /\ response.status = 500
    /\ IsIntText(response.param)
    /\ ParseInt(response.param) \in DOMAIN news
    /\ response.body.topic_id \notin DOMAIN topics
    /\ news[ParseInt(response.param)].topic_id /= response.body.topic_id

====
